---- MODULE Spec2Model ----
(***************************************************************************)
(* Model of the multi-provider model client of prompt-optimizer:           *)
(*   core/client.py            UniversalModelClient, BaseModelAdapter      *)
(*   services/adapters/*.py    OllamaAdapter, OpenAIModelAdapter           *)
(*   config/settings.py        ModelConfig, APIConfig, ConfigValidator     *)
(*   core/models.py            ModelProvider, GenerationConfig             *)
(*                                                                         *)
(* Conventions.  Python strings are TLA+ strings (Len and \o are those of  *)
(* str).  Python None is the sentinel None.  A float is held in hundredths *)
(* (0.7 is 70).  An exception is the name of its class.  An adapter        *)
(* instance is a record whose id is its construction number, so two        *)
(* instances are the same object iff their ids agree.  The source's        *)
(* Chinese message literals are given in English, one literal each.        *)
(***************************************************************************)
EXTENDS Integers, Sequences, FiniteSets, TLC

VARIABLES
    phase,            \* "new" before UniversalModelClient.__init__, then "ready" or "failed"
    config,           \* self.config: the value of its 'provider' entry, None when absent
    adapters,         \* self.adapters: adapter key -> adapter instance
    default_adapter,  \* self.default_adapter (NoAdapter for None)
    default_key,      \* history: the key __init__ built the default adapter for (None without one)
    nextId,           \* number of adapter instances constructed so far
    ctorCount,        \* history: key -> constructions by _get_adapter since the last clear
    served,           \* history: key -> ids of the instances that served calls naming the key since the last clear
    last,             \* history: the last client operation, its arguments and its outcome
    direct,           \* an adapter used without a client, and the last operation applied to it
    session,          \* a UserSession: its two histories and the number of results added to each
    threads,          \* the threads calling generate on the client: thread -> its position in _get_adapter
    aio,              \* the event loop: the task that holds its thread (0: none), and the tasks' positions
    svc               \* the last optimize_prompt call of an OptimizationService, and how it ended

\* the state outside the client and the directly used adapter
sideVars == <<session, threads, aio, svc>>

vars == <<phase, config, adapters, default_adapter, default_key, nextId, ctorCount, served, last, direct,
          sideVars>>

clientVars == <<phase, config, adapters, default_adapter, default_key, nextId, ctorCount, served>>

(***************************************************************************)
(* Bounds of the model.                                                    *)
(***************************************************************************)
\* adapter instances one client run may construct
MaxAdapters == 2

\* results added to one history of a session
MaxAdds == 52

\* threads that call generate on one client at the same time
NThreads == 2

\* generate_async / chat_async invocations started on one event loop
NTasks == 2

(***************************************************************************)
(* core/models.py                                                          *)
(***************************************************************************)
None == "<None>"

\* the values of enum ModelProvider, in definition order
ModelProvider == <<"ollama", "openai", "anthropic", "qwen", "chatglm", "deepseek", "moonshot", "ernie">>

ProviderValues == {ModelProvider[i] : i \in 1..Len(ModelProvider)}

\* ModelProvider(value): the enum lookup, ValueError for a value that is no member
ModelProviderOf(value) ==
    IF value \in ProviderValues
    THEN [raised |-> "none", provider |-> value]
    ELSE [raised |-> "ValueError", provider |-> None]

\* Python truthiness of an Optional[str] argument
Truthy(s) == s # None /\ s # ""

(***************************************************************************)
(* config/settings.py                                                      *)
(***************************************************************************)
\* APIConfig.CONFIGS has an entry for the provider (ERNIE has none)
HasApiConfig(provider) ==
    provider \in {"ollama", "openai", "anthropic", "qwen", "chatglm", "deepseek", "moonshot"}

\* ConfigValidator.get_api_config: the entry, None when there is none
get_api_config(provider) == IF HasApiConfig(provider) THEN provider ELSE None

(***************************************************************************)
(* Adapter instances and their construction                                *)
(***************************************************************************)
NoAdapter == [id |-> 0, cls |-> None, provider |-> None, model_name |-> None]

\* BaseModelAdapter.__init__: binds provider and model, ConfigurationError without an API config
BaseAdapterInit(cls, provider, model_name, id) ==
    IF get_api_config(provider) = None
    THEN [raised |-> "ConfigurationError", adapter |-> NoAdapter]
    ELSE [raised |-> "none",
          adapter |-> [id |-> id, cls |-> cls, provider |-> provider, model_name |-> model_name]]

\* OllamaAdapter.__init__
OllamaAdapterInit(model_name, id) == BaseAdapterInit("OllamaAdapter", "ollama", model_name, id)

\* OpenAIModelAdapter.__init__: the provider is config['provider'] when the config
\* has one and OPENAI otherwise; keyOk: an API key is found for openai.OpenAI(...)
OpenAIModelAdapterInit(model_name, cfgProvider, keyOk, id) ==
    LET p == IF cfgProvider # None THEN ModelProviderOf(cfgProvider)
             ELSE [raised |-> "none", provider |-> "openai"]
        b == BaseAdapterInit("OpenAIModelAdapter", p.provider, model_name, id)
    IN  IF p.raised # "none" THEN [raised |-> p.raised, adapter |-> NoAdapter]
        ELSE IF b.raised # "none" THEN b
        ELSE IF p.provider \notin {"openai", "deepseek"}
             THEN [raised |-> "AttributeError", adapter |-> NoAdapter]  \* ModelProvider.VLLM is no member
        ELSE IF ~keyOk THEN [raised |-> "OpenAIError", adapter |-> NoAdapter]
        ELSE b

(***************************************************************************)
(* core/client.py: UniversalModelClient                                    *)
(***************************************************************************)
\* _get_adapter_key: f"{provider.value}:{model_name}"
AdapterKey(provider, model_name) == provider \o ":" \o model_name

\* _create_adapter: every exception of the construction leaves as ModelError
CreateAdapter(provider, model_name, cfgProvider, keyOk, id) ==
    LET c == IF provider = "ollama" THEN OllamaAdapterInit(model_name, id)
             ELSE IF provider \in {"openai", "deepseek"}
                  THEN OpenAIModelAdapterInit(model_name, cfgProvider, keyOk, id)
             ELSE [raised |-> "AttributeError", adapter |-> NoAdapter]
    IN  IF c.raised # "none" THEN [raised |-> "ModelError", adapter |-> NoAdapter]
        ELSE c

\* _get_adapter without its cache lookup: a new instance on every call
GetAdapterAlwaysCreates(ads, provider, model_name, cfgProvider, keyOk, id) ==
    LET key == AdapterKey(provider, model_name)
        c == CreateAdapter(provider, model_name, cfgProvider, keyOk, id)
    IN  IF c.raised # "none"
        THEN [raised |-> c.raised, adapter |-> NoAdapter, adapters |-> ads, created |-> FALSE]
        ELSE [raised |-> "none", adapter |-> c.adapter,
              adapters |-> [k \in DOMAIN ads \cup {key} |-> IF k = key THEN c.adapter ELSE ads[k]],
              created |-> TRUE]

\* _get_adapter that stores a placeholder under the key when the construction fails
GetAdapterCachesFailure(ads, provider, model_name, cfgProvider, keyOk, id) ==
    LET key == AdapterKey(provider, model_name)
        c == CreateAdapter(provider, model_name, cfgProvider, keyOk, id)
    IN  IF key \in DOMAIN ads
        THEN [raised |-> "none", adapter |-> ads[key], adapters |-> ads, created |-> FALSE]
        ELSE IF c.raised # "none"
             THEN [raised |-> c.raised, adapter |-> NoAdapter,
                   adapters |-> ads @@ (key :> NoAdapter), created |-> FALSE]
        ELSE [raised |-> "none", adapter |-> c.adapter,
              adapters |-> ads @@ (key :> c.adapter), created |-> TRUE]

\* _get_adapter: the cached instance of the key, created and cached when absent
GetAdapter(ads, provider, model_name, cfgProvider, keyOk, id) ==
    LET key == AdapterKey(provider, model_name)
        c == CreateAdapter(provider, model_name, cfgProvider, keyOk, id)
    IN  IF key \in DOMAIN ads
        THEN [raised |-> "none", adapter |-> ads[key], adapters |-> ads, created |-> FALSE]
        ELSE IF c.raised # "none"
             THEN [raised |-> c.raised, adapter |-> NoAdapter, adapters |-> ads, created |-> FALSE]
        ELSE [raised |-> "none", adapter |-> c.adapter,
              adapters |-> ads @@ (key :> c.adapter), created |-> TRUE]

\* _resolve_adapter with a silent fallback: an Ollama adapter when there is neither
ResolveAdapterFallback(ads, dflt, provider, model_name, cfgProvider, keyOk, id) ==
    LET p == ModelProviderOf(provider)
    IN  IF Truthy(provider) /\ Truthy(model_name)
        THEN IF p.raised # "none"
             THEN [raised |-> p.raised, adapter |-> NoAdapter, adapters |-> ads, created |-> FALSE]
             ELSE GetAdapter(ads, p.provider, model_name, cfgProvider, keyOk, id)
        ELSE IF dflt # NoAdapter
             THEN [raised |-> "none", adapter |-> dflt, adapters |-> ads, created |-> FALSE]
        ELSE GetAdapter(ads, "ollama", "gpt-4o", cfgProvider, keyOk, id)

\* _resolve_adapter with the two first branches swapped: the default adapter wins when there is one
ResolveAdapterDefaultFirst(ads, dflt, provider, model_name, cfgProvider, keyOk, id) ==
    LET p == ModelProviderOf(provider)
    IN  IF dflt # NoAdapter
        THEN [raised |-> "none", adapter |-> dflt, adapters |-> ads, created |-> FALSE]
        ELSE IF Truthy(provider) /\ Truthy(model_name)
        THEN IF p.raised # "none"
             THEN [raised |-> p.raised, adapter |-> NoAdapter, adapters |-> ads, created |-> FALSE]
             ELSE GetAdapter(ads, p.provider, model_name, cfgProvider, keyOk, id)
        ELSE [raised |-> "ConfigurationError", adapter |-> NoAdapter, adapters |-> ads, created |-> FALSE]

\* _resolve_adapter without its second branch: the default adapter is never used
ResolveAdapterIgnoresDefault(ads, dflt, provider, model_name, cfgProvider, keyOk, id) ==
    LET p == ModelProviderOf(provider)
    IN  IF Truthy(provider) /\ Truthy(model_name)
        THEN IF p.raised # "none"
             THEN [raised |-> p.raised, adapter |-> NoAdapter, adapters |-> ads, created |-> FALSE]
             ELSE GetAdapter(ads, p.provider, model_name, cfgProvider, keyOk, id)
        ELSE [raised |-> "ConfigurationError", adapter |-> NoAdapter, adapters |-> ads, created |-> FALSE]

\* _resolve_adapter: explicit (provider, model) first, the default adapter next,
\* ConfigurationError when there is neither
ResolveAdapter(ads, dflt, provider, model_name, cfgProvider, keyOk, id) ==
    LET p == ModelProviderOf(provider)
    IN  IF Truthy(provider) /\ Truthy(model_name)
        THEN IF p.raised # "none"
             THEN [raised |-> p.raised, adapter |-> NoAdapter, adapters |-> ads, created |-> FALSE]
             ELSE GetAdapter(ads, p.provider, model_name, cfgProvider, keyOk, id)
        ELSE IF dflt # NoAdapter
             THEN [raised |-> "none", adapter |-> dflt, adapters |-> ads, created |-> FALSE]
        ELSE [raised |-> "ConfigurationError", adapter |-> NoAdapter, adapters |-> ads, created |-> FALSE]

(***************************************************************************)
(* core/models.py: GenerationConfig.  An Optional[int] or Optional[list]   *)
(* field holds <<>> for None and <<v>> for a value v.                      *)
(***************************************************************************)
Fields == {"temperature", "top_p", "top_k", "max_tokens", "stop_sequences",
           "stream", "system_prompt", "frequency_penalty", "presence_penalty"}

\* GenerationConfig(): the construction defaults
DefaultConfig ==
    [temperature |-> 70, top_p |-> 90, top_k |-> <<>>, max_tokens |-> 4096,
     stop_sequences |-> <<>>, stream |-> FALSE, system_prompt |-> None,
     frequency_penalty |-> 0, presence_penalty |-> 0]

\* "v is None" for the value v of field k
IsNoneVal(k, v) ==
    CASE k \in {"top_k", "stop_sequences"} -> v = <<>>
      [] k = "system_prompt" -> v = None
      [] OTHER -> FALSE

\* GenerationConfig.to_dict without its filter: asdict(self)
to_dictKeepsNone(c) == c

\* GenerationConfig.to_dict: the fields whose value is not None
to_dict(c) == [k \in {f \in Fields : ~IsNoneVal(f, c[f])} |-> c[k]]

\* GenerationConfig(**d): the given fields, the construction default for the others
GenerationConfigOf(d) == [k \in Fields |-> IF k \in DOMAIN d THEN d[k] ELSE DefaultConfig[k]]

\* GenerationConfig.from_dict: the entries that name an attribute of the class, constructed
from_dict(d) == GenerationConfigOf([k \in DOMAIN d \cap Fields |-> d[k]])

(***************************************************************************)
(* config/settings.py: ModelConfig.MODELS, the "parameters" of each model  *)
(***************************************************************************)
NoParams == [k \in {} |-> 0]

OpenAIParams ==
    [temperature |-> 70, top_p |-> 100, max_tokens |-> 4096,
     frequency_penalty |-> 0, presence_penalty |-> 0]

\* the static catalog of a provider: its model names, in order
StaticCatalog(provider) ==
    CASE provider = "ollama" -> <<"qwen2.5:latest">>
      [] provider = "openai" -> <<"gpt-4o", "gpt-4-turbo", "gpt-3.5-turbo">>
      [] provider = "anthropic" -> <<"claude-3-5-sonnet-20241022", "claude-3-opus-20240229">>
      [] provider = "deepseek" -> <<"deepseek-chat", "deepseek-reasoner">>
      [] OTHER -> <<>>

\* the "parameters" map of a catalog model
CatalogParams(provider, model_name) ==
    CASE provider = "ollama" ->
            [temperature |-> 80, top_p |-> 90, top_k |-> <<50>>,
             repeat_penalty |-> 105, max_tokens |-> 8192]
      [] provider = "openai" -> OpenAIParams
      [] provider = "anthropic" -> [temperature |-> 70, top_p |-> 100, max_tokens |-> 4096]
      [] provider = "deepseek" /\ model_name = "deepseek-chat" ->
            [temperature |-> 70, top_p |-> 90, max_tokens |-> 4096,
             frequency_penalty |-> 0, presence_penalty |-> 0]
      [] OTHER ->
            [temperature |-> 10, top_p |-> 95, max_tokens |-> 16384,
             frequency_penalty |-> 0, presence_penalty |-> 0]

InCatalog(provider, model_name) ==
    \E i \in 1..Len(StaticCatalog(provider)) : StaticCatalog(provider)[i] = model_name

\* ConfigValidator.get_model_config(...).get("parameters", {}), {} for a model not in the catalog
ModelParams(provider, model_name) ==
    IF InCatalog(provider, model_name) THEN CatalogParams(provider, model_name) ELSE NoParams

(***************************************************************************)
(* BaseModelAdapter._merge_config (core/client.py and core/base_adapter.py *)
(* hold the same text).  cfg is <<>> for None and <<c>> for a config c.    *)
(***************************************************************************)
\* _merge_config where the catalog value always wins
MergeConfigCatalogWins(default_params, cfg) ==
    LET merged == IF cfg # <<>> THEN GenerationConfigOf(to_dict(cfg[1]))
                  ELSE DefaultConfig
    IN  [k \in Fields |-> IF k \in DOMAIN default_params THEN default_params[k] ELSE merged[k]]

\* _merge_config: the caller's config, with the catalog value for every field the
\* caller left at the construction default
MergeConfig(default_params, cfg) ==
    LET merged == IF cfg # <<>> THEN GenerationConfigOf(to_dict(cfg[1]))
                  ELSE DefaultConfig
    IN  [k \in Fields |->
            IF k \in DOMAIN default_params /\ merged[k] = DefaultConfig[k]
            THEN default_params[k]
            ELSE merged[k]]

(***************************************************************************)
(* The backend, as one request meets it.  kind "response" carries an HTTP  *)
(* status and a body; the other kinds are what the transport raises:       *)
(*   timeout          requests ReadTimeout          / openai APITimeoutError      *)
(*   connect_timeout  requests ConnectTimeout (a ConnectionError and a Timeout)   *)
(*   refused          requests ConnectionError      / openai APIConnectionError   *)
(*   exception        any other exception, with its str() in text                 *)
(* Bodies: "valid" is the endpoint's well-formed JSON object, "error_object"      *)
(* a JSON object with an "error" entry only, "empty_object" {}, "array" a JSON    *)
(* list, "not_json" text that is no JSON, "empty" no text at all, "plain" the      *)
(* one-line text a gateway answers with.                                          *)
(***************************************************************************)
Bodies == {"valid", "error_object", "empty_object", "array", "not_json", "empty", "plain"}

Statuses == {200, 404, 500}

Raised(kind, text) == [kind |-> kind, status |-> 0, body |-> "empty", text |-> text]

Outcomes ==
    {Raised(k, "") : k \in {"timeout", "connect_timeout", "refused"}}
    \cup {Raised("exception", t) : t \in {"", "boom"}}
    \cup {[kind |-> "response", status |-> s, body |-> b, text |-> ""] : s \in Statuses, b \in Bodies}

\* response.text
BodyText(body) ==
    CASE body = "valid" -> "{\"response\": \"Recursion is...\"}"
      [] body = "error_object" -> "{\"error\": \"model not found\"}"
      [] body = "empty_object" -> "{}"
      [] body = "array" -> "[]"
      [] body = "not_json" -> "<html>Bad Gateway</html>"
      [] body = "plain" -> "Request timed out."
      [] OTHER -> ""

\* response.json() raises (JSONDecodeError)
JsonRaises(body) == body \in {"not_json", "empty", "plain"}

\* response.json() is a dict
JsonIsObject(body) == body \in {"valid", "error_object", "empty_object"}

\* str(e) of what response.json() or the .get on its value raises
JsonErrorText(body) ==
    IF JsonRaises(body) THEN "Expecting value: line 1 column 1 (char 0)"
    ELSE "'list' object has no attribute 'get'"

\* the text a well-formed completion carries
CompletionText == "Recursion is..."

\* the model names a well-formed listing carries
RemoteModels(provider) ==
    IF provider = "ollama" THEN <<"qwen2.5:latest", "llama3.2:latest">>
    ELSE IF provider = "deepseek" THEN <<"deepseek-chat">>
    ELSE <<"gpt-4o", "gpt-4o-mini">>

(***************************************************************************)
(* core/models.py: ModelResponse, ConnectionStatus, ModelInfo              *)
(***************************************************************************)
ModelResponse(adapter, success, content, error) ==
    [content |-> content, model |-> adapter.model_name, provider |-> adapter.provider,
     success |-> success, error |-> error]

NoResponse == [content |-> None, model |-> None, provider |-> None, success |-> FALSE, error |-> None]

ConnectionStatus(adapter, connected, status_message, error_details) ==
    [provider |-> adapter.provider, connected |-> connected,
     status_message |-> status_message, error_details |-> error_details]

NoStatus == [provider |-> None, connected |-> FALSE, status_message |-> None, error_details |-> None]

ModelInfo(name, provider, available) == [name |-> name, provider |-> provider, available |-> available]

(***************************************************************************)
(* services/adapters/ollama.py: OllamaAdapter                              *)
(***************************************************************************)
\* APIConfig.CONFIGS[OLLAMA]["timeout"], seconds
OllamaTimeout == 60

\* _build_ollama_options
BuildOllamaOptions(c) ==
    LET base == [temperature |-> c.temperature, top_p |-> c.top_p, num_predict |-> c.max_tokens]
        topk == IF c.top_k # <<>> THEN [top_k |-> c.top_k[1]] ELSE NoParams
        stop == IF c.stop_sequences # <<>> /\ c.stop_sequences[1] # <<>>
                THEN [stop |-> c.stop_sequences[1]] ELSE NoParams
    IN  base @@ topk @@ stop

\* the non-200 branch of generate and chat: "HTTP <status>: <detail>"
OllamaHttpError(o) ==
    "HTTP " \o ToString(o.status) \o ": " \o
        (IF o.body = "error_object" THEN "model not found" ELSE BodyText(o.body))

\* generate and chat without the handlers around the 200 branch's parse: a body
\* that is no JSON object is taken as an empty completion
OllamaGenerateTrustsBody(adapter, op, o) ==
    IF o.kind \in {"timeout", "connect_timeout"}
    THEN ModelResponse(adapter, FALSE, "", "request timed out")
    ELSE IF o.kind = "refused"
    THEN ModelResponse(adapter, FALSE, "", "cannot connect to the Ollama service")
    ELSE IF o.kind = "exception"
    THEN ModelResponse(adapter, FALSE, "", "request failed: " \o o.text)
    ELSE IF o.status # 200
    THEN ModelResponse(adapter, FALSE, "", OllamaHttpError(o))
    ELSE ModelResponse(adapter, TRUE, IF o.body = "valid" THEN CompletionText ELSE "", None)

\* generate (op = "generate") and chat (op = "chat"): the response the call returns
OllamaGenerate(adapter, op, o) ==
    IF o.kind \in {"timeout", "connect_timeout"}
    THEN ModelResponse(adapter, FALSE, "",
            IF op = "generate"
            THEN "request timed out (" \o ToString(OllamaTimeout) \o "s), check that the model is running"
            ELSE "chat request timed out (" \o ToString(OllamaTimeout) \o "s)")
    ELSE IF o.kind = "refused"
    THEN ModelResponse(adapter, FALSE, "",
            IF op = "generate"
            THEN "cannot connect to the Ollama service, make sure the service is started"
            ELSE "cannot connect to the Ollama service")
    ELSE IF o.kind = "exception"
    THEN ModelResponse(adapter, FALSE, "",
            (IF op = "generate" THEN "request failed: " ELSE "chat request failed: ") \o o.text)
    ELSE IF o.status # 200
    THEN ModelResponse(adapter, FALSE, "", OllamaHttpError(o))
    ELSE IF ~JsonIsObject(o.body)
    THEN ModelResponse(adapter, FALSE, "",
            (IF op = "generate" THEN "request failed: " ELSE "chat request failed: ")
                \o JsonErrorText(o.body))
    ELSE ModelResponse(adapter, TRUE, IF o.body = "valid" THEN CompletionText ELSE "", None)

\* check_connection
OllamaCheckConnection(adapter, o) ==
    IF o.kind \in {"refused", "connect_timeout"}
    THEN ConnectionStatus(adapter, FALSE, "connection failed",
            "cannot connect to the Ollama service, make sure the service is started")
    ELSE IF o.kind = "timeout"
    THEN ConnectionStatus(adapter, FALSE, "connection timed out",
            "connection timed out, check the network")
    ELSE IF o.kind = "exception"
    THEN ConnectionStatus(adapter, FALSE, "unknown error", "connection check failed: " \o o.text)
    ELSE IF o.status # 200
    THEN ConnectionStatus(adapter, FALSE, "HTTP " \o ToString(o.status),
            "abnormal service response: " \o ToString(o.status))
    ELSE IF ~JsonIsObject(o.body)
    THEN ConnectionStatus(adapter, FALSE, "unknown error",
            "connection check failed: " \o JsonErrorText(o.body))
    ELSE ConnectionStatus(adapter, TRUE, "connection ok", None)

\* get_available_models: the remote listing, [] when it cannot be had
OllamaGetAvailableModels(adapter, o) ==
    IF o.kind = "response" /\ o.status = 200 /\ JsonIsObject(o.body)
    THEN IF o.body = "valid"
         THEN [i \in 1..Len(RemoteModels("ollama")) |->
                    ModelInfo(RemoteModels("ollama")[i], adapter.provider, TRUE)]
         ELSE <<>>
    ELSE <<>>

(***************************************************************************)
(* services/adapters/openai.py: OpenAIModelAdapter.  The backend is met    *)
(* through the openai client, which raises for everything but a 2xx        *)
(* response; a 2xx body without the expected entries makes the adapter's   *)
(* own attribute access raise inside the same try.                         *)
(***************************************************************************)
\* the try block of generate, chat, check_connection, get_available_models raises
SdkRaises(o) == ~(o.kind = "response" /\ o.status = 200 /\ o.body = "valid")

\* str(e) of what it raises
SdkErrorText(o) ==
    CASE o.kind \in {"timeout", "connect_timeout"} -> "Request timed out."
      [] o.kind = "refused" -> "Connection error."
      [] o.kind = "exception" -> o.text
      [] o.kind = "response" /\ o.status # 200 ->
            IF ~JsonRaises(o.body)
            THEN "Error code: " \o ToString(o.status) \o " - " \o BodyText(o.body)
            ELSE IF BodyText(o.body) # "" THEN BodyText(o.body)
            ELSE "Error code: " \o ToString(o.status)
      [] OTHER ->
            IF JsonRaises(o.body) THEN "Expecting value: line 1 column 1 (char 0)"
            ELSE IF o.body = "array" THEN "'list' object has no attribute 'choices'"
            ELSE "'NoneType' object is not subscriptable"

\* generate and chat: the response the call returns
OpenAIGenerate(adapter, op, o) ==
    IF SdkRaises(o)
    THEN ModelResponse(adapter, FALSE, "", SdkErrorText(o))
    ELSE ModelResponse(adapter, TRUE, CompletionText, None)

\* check_connection that reports a failure without its detail
OpenAICheckConnectionNoDetail(adapter, o) ==
    IF SdkRaises(o)
    THEN ConnectionStatus(adapter, FALSE, "connection failed: " \o SdkErrorText(o), None)
    ELSE ConnectionStatus(adapter, TRUE, "connection ok", None)

\* check_connection
OpenAICheckConnection(adapter, o) ==
    IF SdkRaises(o)
    THEN ConnectionStatus(adapter, FALSE, "connection failed: " \o SdkErrorText(o), SdkErrorText(o))
    ELSE ConnectionStatus(adapter, TRUE, "connection ok", None)

\* get_available_models: the remote listing, the static catalog of the adapter's
\* provider when the listing raises
OpenAIGetAvailableModels(adapter, o) ==
    IF SdkRaises(o)
    THEN [i \in 1..Len(StaticCatalog(adapter.provider)) |->
                ModelInfo(StaticCatalog(adapter.provider)[i], adapter.provider, FALSE)]
    ELSE [i \in 1..Len(RemoteModels(adapter.provider)) |->
                ModelInfo(RemoteModels(adapter.provider)[i], adapter.provider, TRUE)]

(***************************************************************************)
(* The adapter interface, dispatched on the instance's class               *)
(***************************************************************************)
AdapterGenerate(adapter, op, o) ==
    IF adapter.cls = "OllamaAdapter" THEN OllamaGenerate(adapter, op, o)
    ELSE OpenAIGenerate(adapter, op, o)

\* generate_async and chat_async as "return await self.generate(...)": awaiting the
\* ModelResponse raises TypeError, and the call yields no response
AdapterGenerateAsyncAwaitsResponse(adapter, op, o) == NoResponse

\* generate_async and chat_async: loop.run_in_executor(None, self.generate, ...) awaited
AdapterGenerateAsync(adapter, op, o) ==
    AdapterGenerate(adapter, IF op = "generate_async" THEN "generate" ELSE "chat", o)

AdapterCheckConnection(adapter, o) ==
    IF adapter.cls = "OllamaAdapter" THEN OllamaCheckConnection(adapter, o)
    ELSE OpenAICheckConnection(adapter, o)

AdapterGetAvailableModels(adapter, o) ==
    IF adapter.cls = "OllamaAdapter" THEN OllamaGetAvailableModels(adapter, o)
    ELSE OpenAIGetAvailableModels(adapter, o)

(***************************************************************************)
(* The sampling parameters an adapter places in its backend request.       *)
(* top_k is <<>> when the request carries none; timeout is the number of   *)
(* seconds after which the transport gives the request up.                 *)
(***************************************************************************)
NoRequest ==
    [sent |-> FALSE, temperature |-> 0, top_p |-> 0, max_tokens |-> 0, top_k |-> <<>>, timeout |-> 0]

\* APIConfig.CONFIGS[provider]["timeout"], seconds: 60 for every provider unless
\* the environment sets another
ApiTimeout(provider) == IF provider = "ollama" THEN OllamaTimeout ELSE 60

\* the timeout of openai.OpenAI(api_key=..., base_url=...), constructed without a
\* timeout argument: the library's default of 600 seconds
SdkDefaultTimeout == 600

\* OllamaAdapter.generate / chat: "options" built from the merged config
OllamaRequest(adapter, cfg) ==
    LET gen_config == MergeConfig(ModelParams(adapter.provider, adapter.model_name), cfg)
        options == BuildOllamaOptions(gen_config)
    IN  [sent |-> TRUE, temperature |-> options.temperature, top_p |-> options.top_p,
         max_tokens |-> options.num_predict,
         top_k |-> IF "top_k" \in DOMAIN options THEN <<options.top_k>> ELSE <<>>,
         timeout |-> ApiTimeout(adapter.provider)]

\* OpenAIModelAdapter.generate / chat: the arguments of chat.completions.create,
\* read from the caller's config, GenerationConfig() when there is none
OpenAIRequest(adapter, cfg) ==
    LET c == IF cfg # <<>> THEN cfg[1] ELSE DefaultConfig
    IN  [sent |-> TRUE, temperature |-> c.temperature, top_p |-> c.top_p,
         max_tokens |-> c.max_tokens, top_k |-> <<>>, timeout |-> SdkDefaultTimeout]

AdapterRequest(adapter, cfg) ==
    IF adapter.cls = "OllamaAdapter" THEN OllamaRequest(adapter, cfg)
    ELSE OpenAIRequest(adapter, cfg)

(***************************************************************************)
(* Inputs of the client operations                                         *)
(***************************************************************************)
\* provider arguments: None, providers with an adapter class, one without, an unknown name
ProviderArgs == {None, "ollama", "deepseek", "anthropic", "bogus"}

ModelArgs == {None, "deepseek-chat", "gpt-4o"}

\* values of the 'provider' entry of the client's config (None: no entry)
ConfigProviders == {None, "deepseek"}

\* backend outcomes met by the calls made through the client
ClientOutcomes ==
    {Raised("timeout", ""),
     [kind |-> "response", status |-> 200, body |-> "valid", text |-> ""]}

AllKeys == {AdapterKey(p, m) : p \in ProviderValues, m \in ModelArgs \ {None}}

NoCache == [k \in {} |-> NoAdapter]

NoCalls == [k \in AllKeys |-> {}]

LastNone ==
    [op |-> "none", provider |-> None, model_name |-> None, raised |-> "none",
     adapter |-> NoAdapter, created |-> FALSE, retry |-> FALSE,
     adapter_resp |-> NoResponse, resp |-> NoResponse, status |-> NoStatus,
     keys |-> {}, failing |-> {}, models |-> <<>>]

DirectNone ==
    [adapter |-> NoAdapter, op |-> "none", outcome |-> Raised("refused", ""),
     resp |-> NoResponse, status |-> NoStatus, models |-> <<>>,
     params |-> NoParams, cfg |-> <<>>, merged |-> DefaultConfig,
     request |-> NoRequest, dict |-> NoParams, back |-> DefaultConfig]

\* an OptimizationResult that was not constructed, and a service that was not called
NoResult == [optimized_prompt |-> <<>>, suggestions |-> <<>>, response |-> NoResponse]

NoService ==
    [op |-> "none", request |-> [original_prompt |-> [len |-> 0, blank |-> TRUE],
                                 optimization_type |-> None, model_provider |-> None,
                                 model_name |-> None],
     template_ok |-> FALSE, validated |-> "none", generate_calls |-> 0,
     model_response |-> NoResponse, raised |-> "none", result |-> NoResult]

\* the tasks of the event loop, and a task that has not started
Tasks == 1..NTasks

NewTask == [pc |-> "new", op |-> "none", provider |-> None, model_name |-> None,
            raised |-> "none", adapter |-> NoAdapter,
            outcome |-> Raised("refused", ""), resp |-> NoResponse]

\* the threads, and a thread that is not inside a call
Threads == 1..NThreads

IdleThread == [pc |-> "idle", provider |-> None, model_name |-> None,
               made |-> NoAdapter, used |-> NoAdapter, raised |-> "none"]

(***************************************************************************)
(* core/models.py: UserSession.  A result is named by its number in the    *)
(* order of addition.                                                      *)
(***************************************************************************)
\* the limit of add_optimization and add_test
HistoryCap == 50

\* UserSession(session_id)
NewSession == [optimization_history |-> <<>>, test_history |-> <<>>, nOpt |-> 0, nTest |-> 0]

\* append, with a limit that keeps the oldest entries: history[:50]
AppendCappedKeepsOldest(history, result) ==
    LET h == Append(history, result)
    IN  IF Len(h) > HistoryCap THEN SubSeq(h, 1, HistoryCap) ELSE h

\* history.append(result), then history[-50:] when it is longer than 50
AppendCapped(history, result) ==
    LET h == Append(history, result)
    IN  IF Len(h) > HistoryCap THEN SubSeq(h, Len(h) - HistoryCap + 1, Len(h)) ELSE h

\* add_optimization(result)
add_optimization ==
    /\ session.nOpt < MaxAdds
    /\ session' = [session EXCEPT !.nOpt = @ + 1,
                        !.optimization_history = AppendCapped(@, session.nOpt + 1)]
    /\ UNCHANGED <<clientVars, last, direct, threads, aio, svc>>

\* add_test(result)
add_test ==
    /\ session.nTest < MaxAdds
    /\ session' = [session EXCEPT !.nTest = @ + 1,
                        !.test_history = AppendCapped(@, session.nTest + 1)]
    /\ UNCHANGED <<clientVars, last, direct, threads, aio, svc>>

(***************************************************************************)
(* core/client.py: the operations of UniversalModelClient                  *)
(***************************************************************************)
Init ==
    /\ phase = "new"
    /\ config = None
    /\ adapters = NoCache
    /\ default_adapter = NoAdapter
    /\ default_key = None
    /\ nextId = 0
    /\ ctorCount = [k \in AllKeys |-> 0]
    /\ served = NoCalls
    /\ last = LastNone
    /\ direct = DirectNone
    /\ session = NewSession
    /\ threads = [t \in Threads |-> IdleThread]
    /\ aio = [loop |-> 0, tasks |-> [t \in Tasks |-> NewTask]]
    /\ svc = NoService

\* __init__(default_provider, default_model, config)
ClientInit(dp, dm, cfgProvider, keyOk) ==
    /\ phase = "new"
    /\ config' = cfgProvider
    /\ LET p == ModelProviderOf(dp)
           g == GetAdapter(NoCache, p.provider, dm, cfgProvider, keyOk, 1)
       IN  IF Truthy(dp) /\ Truthy(dm)
           THEN IF p.raised # "none" \/ g.raised # "none"
                THEN /\ phase' = "failed"
                     /\ last' = [LastNone EXCEPT !.op = "__init__", !.provider = dp, !.model_name = dm,
                                    !.raised = IF p.raised # "none" THEN p.raised ELSE g.raised]
                     /\ UNCHANGED <<adapters, default_adapter, default_key, nextId, ctorCount>>
                ELSE /\ phase' = "ready"
                     /\ adapters' = g.adapters
                     /\ default_adapter' = g.adapter
                     /\ default_key' = AdapterKey(p.provider, dm)
                     /\ nextId' = 1
                     /\ ctorCount' = [ctorCount EXCEPT ![AdapterKey(p.provider, dm)] = 1]
                     /\ last' = [LastNone EXCEPT !.op = "__init__", !.provider = dp, !.model_name = dm,
                                    !.adapter = g.adapter, !.created = TRUE]
           ELSE /\ phase' = "ready"
                /\ last' = [LastNone EXCEPT !.op = "__init__", !.provider = dp, !.model_name = dm]
                /\ UNCHANGED <<adapters, default_adapter, default_key, nextId, ctorCount>>
    /\ UNCHANGED <<served, direct, sideVars>>

\* what the adapter method behind client operation op returns
AdapterCall(op, adapter, o) ==
    IF op \in {"generate", "chat"} THEN AdapterGenerate(adapter, op, o)
    ELSE AdapterGenerateAsync(adapter, op, o)

\* the try block as quick_generate treats a response: a failure is raised as ModelError
ClientCallRaisesOnFailure(op, adapter, o) ==
    IF AdapterCall(op, adapter, o).success
    THEN [raised |-> "none", resp |-> AdapterCall(op, adapter, o)]
    ELSE [raised |-> "ModelError", resp |-> NoResponse]

\* the try block of generate, chat, generate_async, chat_async: the adapter's
\* response is logged and returned as it is
ClientCall(op, adapter, o) ==
    [raised |-> "none", resp |-> AdapterCall(op, adapter, o)]

\* the effect of _resolve_adapter on the client, with the history it leaves
Resolved(r, p, m) ==
    /\ r.created => nextId < MaxAdapters
    /\ adapters' = r.adapters
    /\ nextId' = IF r.created THEN nextId + 1 ELSE nextId
    /\ ctorCount' = IF r.created
                    THEN [ctorCount EXCEPT ![AdapterKey(p, m)] = @ + 1]
                    ELSE ctorCount
    /\ served' = IF r.raised = "none" /\ Truthy(p) /\ Truthy(m)
                 THEN [served EXCEPT ![AdapterKey(p, m)] = @ \cup {r.adapter.id}]
                 ELSE served
    /\ UNCHANGED <<phase, config, default_adapter, default_key, direct>>

\* history: the operation before this one was a call or probe that named the same
\* provider and model and failed to construct its adapter
Retry(p, m) ==
    /\ last.op \in {"generate", "chat", "generate_async", "chat_async", "check_connection"}
    /\ last.raised = "ModelError"
    /\ last.provider = p /\ last.model_name = m

\* generate / chat / generate_async / chat_async (op) with arguments provider p, model_name m
CallStep(op, p, m, o, keyOk) ==
    /\ phase = "ready"
    /\ LET r == ResolveAdapter(adapters, default_adapter, p, m, config, keyOk, nextId + 1)
           c == ClientCall(op, r.adapter, o)
       IN  /\ Resolved(r, p, m)
           /\ last' = IF r.raised # "none"
                      THEN [LastNone EXCEPT !.op = op, !.provider = p, !.model_name = m,
                                !.raised = r.raised, !.retry = Retry(p, m)]
                      ELSE [LastNone EXCEPT !.op = op, !.provider = p, !.model_name = m,
                                !.retry = Retry(p, m),
                                !.raised = c.raised, !.adapter = r.adapter, !.created = r.created,
                                !.adapter_resp = AdapterCall(op, r.adapter, o),
                                !.resp = IF c.raised = "none" THEN c.resp ELSE NoResponse]

Generate(p, m, o, keyOk) == CallStep("generate", p, m, o, keyOk) /\ UNCHANGED sideVars

Chat(p, m, o, keyOk) == CallStep("chat", p, m, o, keyOk) /\ UNCHANGED sideVars

GenerateAsync(p, m, o, keyOk) == CallStep("generate_async", p, m, o, keyOk) /\ UNCHANGED sideVars

ChatAsync(p, m, o, keyOk) == CallStep("chat_async", p, m, o, keyOk) /\ UNCHANGED sideVars

\* check_connection(provider, model_name)
CheckConnection(p, m, o, keyOk) ==
    /\ phase = "ready"
    /\ LET r == ResolveAdapter(adapters, default_adapter, p, m, config, keyOk, nextId + 1)
       IN  /\ Resolved(r, p, m)
           /\ last' = IF r.raised # "none"
                      THEN [LastNone EXCEPT !.op = "check_connection", !.provider = p,
                                !.model_name = m, !.raised = r.raised, !.retry = Retry(p, m)]
                      ELSE [LastNone EXCEPT !.op = "check_connection", !.provider = p,
                                !.model_name = m, !.retry = Retry(p, m), !.adapter = r.adapter, !.created = r.created,
                                !.status = AdapterCheckConnection(r.adapter, o)]
    /\ UNCHANGED sideVars

\* clear_adapter_cache
ClearAdapterCache ==
    /\ phase = "ready"
    /\ adapters' = NoCache
    /\ ctorCount' = [k \in AllKeys |-> 0]
    /\ served' = NoCalls
    /\ last' = [LastNone EXCEPT !.op = "clear_adapter_cache"]
    /\ UNCHANGED <<phase, config, default_adapter, default_key, nextId, direct, sideVars>>

(***************************************************************************)
(* generate called from several threads.  _resolve_adapter and             *)
(* _get_adapter take no lock, so a thread may be preempted between the     *)
(* membership test, the construction, the store and the final read of      *)
(* self.adapters; each of the four is one step of the thread.              *)
(***************************************************************************)
\* the (provider, model) pairs the threads name
ThreadProviders == {"ollama", "deepseek"}

ThreadModels == {"deepseek-chat"}

\* generate(prompt, provider, model_name) entered: _resolve_adapter reaches _get_adapter
ThreadCall(t, p, m) ==
    /\ phase = "ready" /\ threads[t].pc = "idle"
    /\ threads' = [threads EXCEPT ![t] = [IdleThread EXCEPT !.pc = "lookup", !.provider = p,
                                                             !.model_name = m]]
    /\ UNCHANGED <<clientVars, last, direct, session, aio, svc>>

\* if adapter_key not in self.adapters
ThreadLookup(t) ==
    /\ threads[t].pc = "lookup"
    /\ threads' = [threads EXCEPT ![t].pc =
                        IF AdapterKey(threads[t].provider, threads[t].model_name) \in DOMAIN adapters
                        THEN "fetch" ELSE "create"]
    /\ UNCHANGED <<clientVars, last, direct, session, aio, svc>>

\* self._create_adapter(provider, model_name), the right-hand side of the store
ThreadCreate(t) ==
    /\ threads[t].pc = "create"
    /\ nextId < MaxAdapters
    /\ LET c == CreateAdapter(threads[t].provider, threads[t].model_name, config, TRUE, nextId + 1)
       IN  IF c.raised # "none"
           THEN /\ threads' = [threads EXCEPT ![t].pc = "done", ![t].raised = c.raised]
                /\ UNCHANGED <<nextId, ctorCount>>
           ELSE /\ threads' = [threads EXCEPT ![t].pc = "store", ![t].made = c.adapter]
                /\ nextId' = nextId + 1
                /\ ctorCount' = [ctorCount EXCEPT
                        ![AdapterKey(threads[t].provider, threads[t].model_name)] = @ + 1]
    /\ UNCHANGED <<phase, config, adapters, default_adapter, default_key, served, last, direct, session, aio, svc>>

\* self.adapters[adapter_key] = <the adapter just constructed>
ThreadStore(t) ==
    /\ threads[t].pc = "store"
    /\ adapters' = [k \in DOMAIN adapters \cup {AdapterKey(threads[t].provider, threads[t].model_name)} |->
                        IF k = AdapterKey(threads[t].provider, threads[t].model_name)
                        THEN threads[t].made ELSE adapters[k]]
    /\ threads' = [threads EXCEPT ![t].pc = "fetch"]
    /\ UNCHANGED <<phase, config, default_adapter, default_key, nextId, ctorCount, served, last,
                   direct, session, aio, svc>>

\* return self.adapters[adapter_key]: the instance generate goes on to use
ThreadFetch(t) ==
    /\ threads[t].pc = "fetch"
    /\ threads' = [threads EXCEPT ![t].pc = "done",
                        ![t].used = adapters[AdapterKey(threads[t].provider, threads[t].model_name)]]
    /\ UNCHANGED <<clientVars, last, direct, session, aio, svc>>

(***************************************************************************)
(* generate_async and chat_async on an asyncio event loop.  A coroutine    *)
(* runs on the loop's thread until it awaits; what run_in_executor submits *)
(* runs on a thread of the loop's default ThreadPoolExecutor.              *)
(***************************************************************************)
\* threads of the default executor: min(32, cpu_count + 4), five at the least
ExecutorWorkers == 5

\* the adapter's generate_async as a plain call of self.generate inside the coroutine
AsyncRunsOnLoop(adapter) == "loop"

\* where the adapter's generate_async runs self.generate: run_in_executor(None, ...)
AsyncRunsOn(adapter) == "worker"

\* tasks whose synchronous call occupies a worker
BusyWorkers == {t \in Tasks : aio.tasks[t].pc = "waiting" /\ aio.loop # t}

\* client.generate_async / chat_async (op) started: the coroutine resolves its
\* adapter and runs adapter.generate_async up to its await
AsyncStart(t, op) ==
    /\ phase = "ready" /\ default_adapter # NoAdapter
    /\ aio.tasks[t].pc = "new" /\ aio.loop = 0
    /\ LET r == ResolveAdapter(adapters, default_adapter, None, None, config, TRUE, nextId + 1)
       IN  aio' = IF AsyncRunsOn(r.adapter) = "worker"
                  THEN [aio EXCEPT !.tasks[t] = [NewTask EXCEPT !.pc = "queued", !.op = op,
                                                                !.adapter = r.adapter]]
                  ELSE [loop |-> t,
                        tasks |-> [aio.tasks EXCEPT ![t] = [NewTask EXCEPT !.pc = "waiting", !.op = op,
                                                                          !.adapter = r.adapter]]]
    /\ UNCHANGED <<clientVars, last, direct, session, threads, svc>>

\* client.generate_async / chat_async (op) naming provider p and model m, started:
\* the coroutine runs on the loop's thread from its first statement to its first
\* await.  _resolve_adapter is a plain call, so the lookup, the construction and the
\* store of _get_adapter all lie before that await and no other coroutine runs in
\* between; the call raises there when the adapter cannot be had.
AsyncStartNamed(t, op, p, m) ==
    /\ phase = "ready"
    /\ aio.tasks[t].pc = "new" /\ aio.loop = 0
    /\ LET r == ResolveAdapter(adapters, default_adapter, p, m, config, TRUE, nextId + 1)
           started == [NewTask EXCEPT !.op = op, !.provider = p, !.model_name = m]
       IN  /\ Resolved(r, p, m)
           /\ aio' = IF r.raised # "none"
                      THEN [aio EXCEPT !.tasks[t] = [started EXCEPT !.pc = "done", !.raised = r.raised]]
                      ELSE IF AsyncRunsOn(r.adapter) = "worker"
                      THEN [aio EXCEPT !.tasks[t] = [started EXCEPT !.pc = "queued", !.adapter = r.adapter]]
                      ELSE [loop |-> t,
                            tasks |-> [aio.tasks EXCEPT ![t] =
                                            [started EXCEPT !.pc = "waiting", !.adapter = r.adapter]]]
    /\ UNCHANGED <<last, session, threads, svc>>

\* a free worker takes the submitted call and issues its backend request
AsyncIssue(t) ==
    /\ aio.tasks[t].pc = "queued"
    /\ Cardinality(BusyWorkers) < ExecutorWorkers
    /\ aio' = [aio EXCEPT !.tasks[t].pc = "waiting"]
    /\ UNCHANGED <<clientVars, last, direct, session, threads, svc>>

\* the backend answers o (or the request times out): the synchronous call returns
AsyncAnswer(t, o) ==
    /\ aio.tasks[t].pc = "waiting"
    /\ aio' = [loop |-> IF aio.loop = t THEN 0 ELSE aio.loop,
               tasks |-> [aio.tasks EXCEPT ![t].pc = "returned", ![t].outcome = o,
                            ![t].resp = AdapterGenerateAsync(aio.tasks[t].adapter, aio.tasks[t].op, o)]]
    /\ UNCHANGED <<clientVars, last, direct, session, threads, svc>>

\* the loop resumes the coroutine, which returns the response to its caller
AsyncResume(t) ==
    /\ aio.tasks[t].pc = "returned" /\ aio.loop = 0
    /\ aio' = [aio EXCEPT !.tasks[t].pc = "done",
                    !.tasks[t].resp = ClientCall(aio.tasks[t].op, aio.tasks[t].adapter,
                                                 aio.tasks[t].outcome).resp]
    /\ UNCHANGED <<clientVars, last, direct, session, threads, svc>>

(***************************************************************************)
(* services/optimization.py: OptimizationService.  A prompt is held by its *)
(* length and by whether strip() leaves nothing of it; a text that is      *)
(* searched and cut is a sequence of tokens, " " and "\n" being its        *)
(* whitespace, "<fence>" a code fence and "<dq>", "<sq>" its quotes.       *)
(***************************************************************************)
\* the length limit of _validate_request
MaxPromptLength == 10000

\* _validate_request that checks nothing
ValidateRequestAcceptsAll(request, template_ok) == "none"

\* _validate_request: the exception it raises, "none" when the request passes
ValidateRequest(request, template_ok) ==
    IF request.original_prompt.blank THEN "ValidationError"
    ELSE IF request.original_prompt.len > MaxPromptLength THEN "ValidationError"
    ELSE IF ~Truthy(request.model_name) THEN "ValidationError"
    ELSE IF ~template_ok THEN "TemplateError"
    ELSE "none"

IsSpace(tok) == tok \in {" ", "\n"}

RECURSIVE LStrip(_)
LStrip(toks) == IF toks # <<>> /\ IsSpace(Head(toks)) THEN LStrip(Tail(toks)) ELSE toks

RECURSIVE RStrip(_)
RStrip(toks) ==
    IF toks # <<>> /\ IsSpace(toks[Len(toks)]) THEN RStrip(SubSeq(toks, 1, Len(toks) - 1)) ELSE toks

\* str.strip()
Strip(toks) == RStrip(LStrip(toks))

\* the separators _extract_optimized_prompt looks for, in its order
Separators ==
    <<"Optimized prompt (zh):", "Optimized (zh):", "Optimized prompt:",
      "Optimization result (zh):", "Improved (zh):", "---">>

Occurs(tok, toks) == \E i \in 1..Len(toks) : toks[i] = tok

FirstIndex(tok, toks) == CHOOSE i \in 1..Len(toks) : toks[i] = tok /\ \A j \in 1..(i - 1) : toks[j] # tok

LastIndex(tok, toks) == CHOOSE i \in 1..Len(toks) : toks[i] = tok /\ \A j \in (i + 1)..Len(toks) : toks[j] # tok

\* what follows the separator, stripped, without its code fence or its quotes
AfterSeparator(sep, content) ==
    LET extracted == Strip(SubSeq(content, FirstIndex(sep, content) + 1, Len(content)))
        fenced == extracted # <<>> /\ Head(extracted) = "<fence>" /\ extracted[Len(extracted)] = "<fence>"
        newlines == Cardinality({i \in 1..Len(extracted) : extracted[i] = "\n"})
        unfenced == IF fenced /\ newlines >= 2
                    THEN SubSeq(extracted, FirstIndex("\n", extracted) + 1,
                                LastIndex("\n", extracted) - 1)
                    ELSE extracted
        Quoted(q) == unfenced # <<>> /\ Head(unfenced) = q /\ unfenced[Len(unfenced)] = q
    IN  IF Quoted("<dq>") \/ Quoted("<sq>")
        THEN SubSeq(unfenced, 2, Len(unfenced) - 1)
        ELSE unfenced

RECURSIVE ExtractFrom(_, _)
ExtractFrom(i, content) ==
    IF i > Len(Separators) THEN content
    ELSE IF Occurs(Separators[i], content) THEN AfterSeparator(Separators[i], content)
    ELSE ExtractFrom(i + 1, content)

\* _extract_optimized_prompt
ExtractOptimizedPrompt(response_content) == ExtractFrom(1, Strip(response_content))

\* the tokens of the completion texts the backend returns
ContentTokens(content) ==
    IF content = CompletionText THEN <<" ", "Optimized prompt:", " ", "<dq>", "Recursion", " ", "is...", "<dq>", "\n">>
    ELSE IF content = "" THEN <<>>
    ELSE <<content>>

RECURSIVE TextLen(_)
TextLen(toks) == IF toks = <<>> THEN 0 ELSE Len(Head(toks)) + TextLen(Tail(toks))

OptimizationTypes == {"general", "structured", "role_based", "task_oriented", "creative", "logical"}

\* the boilerplate suggestions of an optimization type
TypeSuggestions(optimization_type) ==
    CASE optimization_type = "general" ->
            <<"improved the clarity and accuracy of the wording", "added the necessary context">>
      [] optimization_type = "structured" ->
            <<"adopted a structured organisation", "made the task steps and the output format explicit">>
      [] optimization_type = "role_based" ->
            <<"introduced a professional role", "strengthened the professional background">>
      [] optimization_type = "task_oriented" ->
            <<"made the goal and the expected result explicit", "added concrete guidance">>
      [] optimization_type = "creative" ->
            <<"strengthened the creative guidance", "encouraged diverse angles of thought">>
      [] optimization_type = "logical" ->
            <<"strengthened the structure of the reasoning", "added guidance for analysis">>
      [] OTHER -> <<>>

\* _generate_suggestions
GenerateSuggestions(original_len, optimized, optimization_type) ==
    LET grown == IF 10 * TextLen(optimized) > 15 * original_len
                 THEN <<"considerably extended the detail of the prompt">>
                 ELSE IF 10 * TextLen(optimized) > 12 * original_len
                 THEN <<"moderately added guidance">>
                 ELSE <<>>
        markdown == IF Occurs("##", optimized) \/ Occurs("**", optimized)
                    THEN <<"used Markdown to improve readability">> ELSE <<>>
        steps == IF Occurs("Step", optimized) THEN <<"added step-by-step guidance">> ELSE <<>>
        examples == IF Occurs("for example (zh)", optimized)
                    THEN <<"gave concrete examples">> ELSE <<>>
        suggestions == TypeSuggestions(optimization_type) \o grown \o markdown \o steps \o examples
    IN  IF suggestions # <<>> THEN suggestions
        ELSE <<"applied the template-based optimization strategy">>

\* the fields of dataclass OptimizationResult
OptimizationResultFields ==
    {"request", "optimized_prompt", "suggestions", "response", "metrics", "task_id", "created_at"}

\* OptimizationResult(**kwargs): TypeError for a keyword that names no field
OptimizationResultOf(kwargs) ==
    IF DOMAIN kwargs \subseteq OptimizationResultFields
    THEN [raised |-> "none",
          result |-> [optimized_prompt |-> kwargs.optimized_prompt,
                      suggestions |-> kwargs.suggestions, response |-> kwargs.response]]
    ELSE [raised |-> "TypeError", result |-> NoResult]

\* the try block of optimize_prompt, gen being what client.generate gave
\* (looked at only when the request passed validation)
OptimizeTry(request, validated, gen) ==
    IF validated # "none" THEN [raised |-> validated, result |-> NoResult]
    ELSE IF gen.raised # "none" THEN [raised |-> gen.raised, result |-> NoResult]
    ELSE IF ~gen.resp.success THEN [raised |-> "ModelError", result |-> NoResult]
    ELSE LET optimized_prompt == ExtractOptimizedPrompt(ContentTokens(gen.resp.content))
         IN  OptimizationResultOf(
                [request |-> request, optimized_prompt |-> optimized_prompt,
                 suggestions |-> GenerateSuggestions(request.original_prompt.len, optimized_prompt,
                                                     request.optimization_type),
                 response |-> gen.resp, metrics |-> "metrics",
                 template_used |-> "optimization/" \o request.optimization_type \o ".md",
                 created_at |-> "now"])

\* the handlers of optimize_prompt: TemplateError is raised again, any other
\* exception is answered with a failure result built in the handler
OptimizeHandlers(request, t) ==
    IF t.raised \in {"none", "TemplateError"} THEN t
    ELSE OptimizationResultOf(
            [request |-> request, optimized_prompt |-> <<>>, suggestions |-> <<>>,
             response |-> [content |-> "", model |-> request.model_name,
                           provider |-> request.model_provider, success |-> FALSE,
                           error |-> "optimization failed: " \o t.raised],
             metrics |-> "metrics", template_used |-> "", created_at |-> "now"])

\* optimize_prompt(request): how the call ends
OptimizeOutcome(request, validated, gen) == OptimizeHandlers(request, OptimizeTry(request, validated, gen))

\* optimize_prompt(request) on a service whose templates are present (template_ok)
\* or missing, the backend answering o to the model call if one is made
OptimizePrompt(request, template_ok, o, keyOk) ==
    LET validated == ValidateRequest(request, template_ok)
    IN  IF validated # "none"
        THEN /\ phase = "ready"
             /\ svc' = [NoService EXCEPT !.op = "optimize_prompt", !.request = request,
                            !.template_ok = template_ok, !.validated = validated,
                            !.raised = OptimizeOutcome(request, validated,
                                            [raised |-> "none", resp |-> NoResponse]).raised,
                            !.result = OptimizeOutcome(request, validated,
                                            [raised |-> "none", resp |-> NoResponse]).result]
             /\ UNCHANGED <<clientVars, last, direct, session, threads, aio>>
        ELSE /\ CallStep("generate", request.model_provider, request.model_name, o, keyOk)
             /\ svc' = [NoService EXCEPT !.op = "optimize_prompt", !.request = request,
                            !.template_ok = template_ok, !.validated = validated,
                            !.generate_calls = 1,
                            !.model_response = last'.resp,
                            !.raised = OptimizeOutcome(request, validated,
                                            [raised |-> last'.raised, resp |-> last'.resp]).raised,
                            !.result = OptimizeOutcome(request, validated,
                                            [raised |-> last'.raised, resp |-> last'.resp]).result]
             /\ UNCHANGED <<session, threads, aio>>

(***************************************************************************)
(* get_available_models.  keys: the providers whose APIConfig entry has an *)
(* api_key; failing: the providers whose remote listing fails.             *)
(***************************************************************************)
KeyChoices == SUBSET {"openai", "anthropic", "deepseek"}

FailChoices == SUBSET {"ollama", "openai", "deepseek"}

ListingOutcome(provider, failing) ==
    IF provider \in failing THEN Raised("refused", "")
    ELSE [kind |-> "response", status |-> 200, body |-> "valid", text |-> ""]

\* openai.OpenAI(api_key=...) finds a key: the provider's own, else OPENAI_API_KEY
KeyFound(provider, keys) == provider \in keys \/ "openai" \in keys

\* the provider an OpenAIModelAdapter built with this client config binds to
BoundProvider(cfgProvider) == IF cfgProvider # None THEN cfgProvider ELSE "openai"

\* ConfigValidator.get_available_providers(): Ollama by its base_url, the others by their api_key
RECURSIVE AvailableFrom(_, _)
AvailableFrom(i, keys) ==
    IF i > Len(ModelProvider) THEN <<>>
    ELSE (IF ModelProvider[i] = "ollama" \/ ModelProvider[i] \in keys
          THEN <<ModelProvider[i]>> ELSE <<>>) \o AvailableFrom(i + 1, keys)

get_available_providers(keys) == AvailableFrom(1, keys)

\* get_available_models(provider) with a provider: a temporary adapter's listing,
\* [] when its construction or its listing raises
ProviderModels(provider, cfgProvider, keys, failing) ==
    LET c == CreateAdapter(provider, "temp", cfgProvider,
                           KeyFound(BoundProvider(cfgProvider), keys), 1)
    IN  IF c.raised # "none" THEN <<>>
        ELSE AdapterGetAvailableModels(c.adapter, ListingOutcome(c.adapter.provider, failing))

\* get_available_models() without one: the listings of the available providers, concatenated
RECURSIVE AllModels(_, _, _, _)
AllModels(provs, cfgProvider, keys, failing) ==
    IF provs = <<>> THEN <<>>
    ELSE ProviderModels(Head(provs), cfgProvider, keys, failing)
            \o AllModels(Tail(provs), cfgProvider, keys, failing)

GetAvailableModels(p, keys, failing) ==
    /\ phase = "ready"
    /\ last' =
        IF Truthy(p)
        THEN IF ModelProviderOf(p).raised # "none"
             THEN [LastNone EXCEPT !.op = "get_available_models", !.provider = p,
                        !.raised = ModelProviderOf(p).raised, !.keys = keys, !.failing = failing]
             ELSE [LastNone EXCEPT !.op = "get_available_models", !.provider = p,
                        !.keys = keys, !.failing = failing,
                        !.models = ProviderModels(p, config, keys, failing)]
        ELSE [LastNone EXCEPT !.op = "get_available_models", !.provider = p,
                    !.keys = keys, !.failing = failing,
                    !.models = AllModels(get_available_providers(keys), config, keys, failing)]
    /\ UNCHANGED <<clientVars, direct, sideVars>>

(***************************************************************************)
(* The client, used from one thread.  A call that reaches no backend meets *)
(* no outcome, and one that constructs no OpenAIModelAdapter looks up no   *)
(* key: such a call is taken once, not once per outcome and key.           *)
(***************************************************************************)
\* the call constructs an OpenAIModelAdapter
NeedsKey(p, m) ==
    /\ Truthy(p) /\ Truthy(m) /\ p \in {"openai", "deepseek"}
    /\ AdapterKey(p, m) \notin DOMAIN adapters

KeyOkChoices(p, m) == IF NeedsKey(p, m) THEN BOOLEAN ELSE {TRUE}

\* the call's adapter resolution raises whatever the key lookup gives
NoBackend(p, m) ==
    IF Truthy(p) /\ Truthy(m) THEN p \notin {"ollama", "openai", "deepseek"}
    ELSE default_adapter = NoAdapter

OutcomeChoices(p, m) ==
    IF NoBackend(p, m) THEN {Raised("refused", "")} ELSE ClientOutcomes

Next ==
    \/ \E dp \in ProviderArgs, dm \in ModelArgs, c \in ConfigProviders, k \in BOOLEAN :
            ClientInit(dp, dm, c, k)
    \/ \E p \in ProviderArgs, m \in ModelArgs :
        \E o \in OutcomeChoices(p, m), k \in KeyOkChoices(p, m) :
            \/ Generate(p, m, o, k)
            \/ Chat(p, m, o, k)
            \/ GenerateAsync(p, m, o, k)
            \/ ChatAsync(p, m, o, k)
            \/ CheckConnection(p, m, o, k)
    \/ ClearAdapterCache

Spec == Init /\ [][Next]_vars

(***************************************************************************)
(* The client's catalog queries                                            *)
(***************************************************************************)
NextCatalog ==
    \/ \E dp \in ProviderArgs, dm \in ModelArgs, c \in ConfigProviders, k \in BOOLEAN :
            ClientInit(dp, dm, c, k)
    \/ \E p \in ProviderArgs, keys \in KeyChoices, failing \in FailChoices :
            GetAvailableModels(p, keys, failing)

SpecCatalog == Init /\ [][NextCatalog]_vars

(***************************************************************************)
(* An adapter constructed and used directly, as components/sidebar.py does *)
(***************************************************************************)
DirectModels == {"qwen2.5:latest", "deepseek-reasoner", "gpt-4o", "temp"}

\* OllamaAdapter(model_name)
NewOllamaAdapter(model_name) ==
    LET c == OllamaAdapterInit(model_name, 1)
    IN  /\ c.raised = "none"
        /\ direct' = [DirectNone EXCEPT !.adapter = c.adapter, !.op = "__init__"]
        /\ UNCHANGED <<clientVars, last, sideVars>>

\* OpenAIModelAdapter(model_name, {'provider': provider}), config None without a provider
NewOpenAIAdapter(model_name, cfgProvider, keyOk) ==
    LET c == OpenAIModelAdapterInit(model_name, cfgProvider, keyOk, 1)
    IN  /\ c.raised = "none"
        /\ direct' = [DirectNone EXCEPT !.adapter = c.adapter, !.op = "__init__"]
        /\ UNCHANGED <<clientVars, last, sideVars>>

\* adapter.generate / chat / generate_async / chat_async with config cfg against a
\* backend that answers o
DirectGenerateWith(op, cfg, o) ==
    /\ direct.adapter # NoAdapter
    /\ direct' = [DirectNone EXCEPT !.adapter = direct.adapter, !.op = op, !.outcome = o,
                      !.cfg = cfg,
                      !.request = AdapterRequest(direct.adapter, cfg),
                      !.resp = IF op \in {"generate", "chat"}
                               THEN AdapterGenerate(direct.adapter, op, o)
                               ELSE AdapterGenerateAsync(direct.adapter, op, o)]
    /\ UNCHANGED <<clientVars, last, sideVars>>

\* the same without a config
DirectGenerate(op, o) == DirectGenerateWith(op, <<>>, o)

\* adapter.check_connection()
DirectCheckConnection(o) ==
    /\ direct.adapter # NoAdapter
    /\ direct' = [DirectNone EXCEPT !.adapter = direct.adapter, !.op = "check_connection",
                      !.outcome = o, !.status = AdapterCheckConnection(direct.adapter, o)]
    /\ UNCHANGED <<clientVars, last, sideVars>>

\* adapter.get_available_models()
DirectGetAvailableModels(o) ==
    /\ direct.adapter # NoAdapter
    /\ direct' = [DirectNone EXCEPT !.adapter = direct.adapter, !.op = "get_available_models",
                      !.outcome = o, !.models = AdapterGetAvailableModels(direct.adapter, o)]
    /\ UNCHANGED <<clientVars, last, sideVars>>

\* adapter._merge_config(cfg), default_params being the "parameters" of self.model_config
DirectMergeConfig(default_params, cfg) ==
    /\ direct' = [DirectNone EXCEPT !.adapter = direct.adapter, !.op = "_merge_config",
                      !.params = default_params, !.cfg = cfg,
                      !.merged = MergeConfig(default_params, cfg)]
    /\ UNCHANGED <<clientVars, last, sideVars>>

\* GenerationConfig.from_dict(c.to_dict()) for a config c
DirectRoundTrip(cfg) ==
    /\ cfg # <<>>
    /\ direct' = [DirectNone EXCEPT !.adapter = direct.adapter, !.op = "to_dict", !.cfg = cfg,
                      !.dict = to_dict(cfg[1]), !.back = from_dict(to_dict(cfg[1]))]
    /\ UNCHANGED <<clientVars, last, sideVars>>

\* the model_config parameters met: none, the catalog's, and a map with a temperature only
ParamChoices ==
    {NoParams, OpenAIParams, CatalogParams("ollama", "qwen2.5:latest"),
     CatalogParams("deepseek", "deepseek-reasoner"), [temperature |-> 30]}

\* the caller configs met: None, and configs that set some fields
ConfigChoices ==
    {<<>>} \cup
    {<<[DefaultConfig EXCEPT !.temperature = t, !.top_p = tp, !.top_k = tk,
                             !.max_tokens = mt, !.system_prompt = sp]>> :
        t \in {70, 30, 10}, tp \in {90, 100}, tk \in {<<>>, <<40>>, <<50>>},
        mt \in {4096, 256}, sp \in {None, "be brief"}}

NextAdapter ==
    \/ \E m \in DirectModels : NewOllamaAdapter(m)
    \/ \E m \in DirectModels, c \in {None, "openai", "deepseek", "anthropic"}, k \in BOOLEAN :
            NewOpenAIAdapter(m, c, k)
    \/ \E op \in {"generate", "chat", "generate_async", "chat_async"}, o \in Outcomes :
            DirectGenerate(op, o)
    \/ \E o \in Outcomes : DirectCheckConnection(o)
    \/ \E o \in Outcomes : DirectGetAvailableModels(o)

SpecAdapter == Init /\ [][NextAdapter]_vars

(***************************************************************************)
(* The config merge, applied to every model_config and caller config       *)
(***************************************************************************)
NextMerge ==
    \/ \E dp \in ParamChoices, c \in ConfigChoices : DirectMergeConfig(dp, c)
    \/ \E c \in ConfigChoices : DirectRoundTrip(c)

SpecMerge == Init /\ [][NextMerge]_vars

(***************************************************************************)
(* The requests the adapters issue, for configs in and out of the accepted *)
(* ranges (temperature 0..2, top_p 0..1, max_tokens > 0, top_k >= 1)       *)
(***************************************************************************)
RequestConfigs ==
    {<<>>} \cup
    {<<[DefaultConfig EXCEPT !.temperature = t, !.top_p = tp, !.top_k = tk, !.max_tokens = mt]>> :
        t \in {70, 30, 500}, tp \in {90, 150}, tk \in {<<>>, <<0>>, <<40>>}, mt \in {4096, 0}}

RequestOutcomes ==
    {Raised("timeout", ""), [kind |-> "response", status |-> 200, body |-> "valid", text |-> ""]}

NextRequest ==
    \/ \E m \in DirectModels : NewOllamaAdapter(m)
    \/ \E m \in DirectModels, c \in {None, "deepseek"} : NewOpenAIAdapter(m, c, TRUE)
    \/ \E op \in {"generate", "chat"}, c \in RequestConfigs, o \in RequestOutcomes :
            DirectGenerateWith(op, c, o)

SpecRequest == Init /\ [][NextRequest]_vars

(***************************************************************************)
(* A session to which results are added                                    *)
(***************************************************************************)
NextSession == add_optimization \/ add_test

SpecSession == Init /\ [][NextSession]_vars

(***************************************************************************)
(* One client without a default adapter, called from NThreads threads      *)
(***************************************************************************)
NextRace ==
    \/ \E c \in ConfigProviders : ClientInit(None, None, c, TRUE)
    \/ \E t \in Threads :
        \/ \E p \in ThreadProviders, m \in ThreadModels : ThreadCall(t, p, m)
        \/ ThreadLookup(t)
        \/ ThreadCreate(t)
        \/ ThreadStore(t)
        \/ ThreadFetch(t)

SpecRace == Init /\ [][NextRace]_vars

(***************************************************************************)
(* One client with a default adapter, NTasks asynchronous calls on one     *)
(* loop.  The executor's threads and the loop are scheduled, and a request *)
(* ends with an answer or with its timeout, hence the fairness conditions. *)
(***************************************************************************)
NextAsync ==
    \/ \E dp \in {"ollama", "deepseek"} : ClientInit(dp, "deepseek-chat", None, TRUE)
    \/ \E t \in Tasks :
        \/ \E op \in {"generate_async", "chat_async"} : AsyncStart(t, op)
        \/ AsyncIssue(t)
        \/ \E o \in ClientOutcomes : AsyncAnswer(t, o)
        \/ AsyncResume(t)

SpecAsync ==
    /\ Init /\ [][NextAsync]_vars
    /\ \A t \in Tasks :
        /\ WF_vars(AsyncIssue(t))
        /\ WF_vars(\E o \in ClientOutcomes : AsyncAnswer(t, o))
        /\ WF_vars(AsyncResume(t))

(***************************************************************************)
(* One client without a default adapter, NTasks asynchronous calls on one  *)
(* loop, each naming its provider and model                                *)
(***************************************************************************)
NextLoop ==
    \/ \E c \in ConfigProviders : ClientInit(None, None, c, TRUE)
    \/ \E t \in Tasks :
        \/ \E op \in {"generate_async", "chat_async"}, p \in ThreadProviders, m \in ThreadModels :
                AsyncStartNamed(t, op, p, m)
        \/ AsyncIssue(t)
        \/ \E o \in ClientOutcomes : AsyncAnswer(t, o)
        \/ AsyncResume(t)

SpecLoop == Init /\ [][NextLoop]_vars

(***************************************************************************)
(* One OptimizationService and the requests it is given                    *)
(***************************************************************************)
\* prompts: empty, whitespace only, ordinary, at the length limit, one over it
PromptChoices ==
    {[len |-> 0, blank |-> TRUE], [len |-> 3, blank |-> TRUE], [len |-> 12, blank |-> FALSE],
     [len |-> MaxPromptLength, blank |-> FALSE], [len |-> MaxPromptLength + 1, blank |-> FALSE]}

Requests ==
    [original_prompt : PromptChoices, optimization_type : {"general", "logical"},
     model_provider : {"ollama", "deepseek", "anthropic"}, model_name : {"", "deepseek-chat"}]

NextService ==
    \/ ClientInit(None, None, None, TRUE)
    \/ \E request \in Requests, template_ok \in BOOLEAN, o \in ClientOutcomes, k \in BOOLEAN :
            OptimizePrompt(request, template_ok, o, k)

SpecService == Init /\ [][NextService]_vars

(***************************************************************************)
(* Properties                                                              *)
(***************************************************************************)
CallOps == {"generate", "chat", "generate_async", "chat_async"}

\* the last operation is a call that named both a provider and a model
NamedCall == last.op \in CallOps /\ Truthy(last.provider) /\ Truthy(last.model_name)

\* the backend failed in one of the ways an adapter must report: a timeout, a
\* refused connection, a non-2xx status, a body that is no JSON object
BackendFailed(o) ==
    \/ o.kind \in {"timeout", "connect_timeout", "refused"}
    \/ o.kind = "response" /\ o.status # 200
    \/ o.kind = "response" /\ o.status = 200 /\ ~JsonIsObject(o.body)

\* C1: between two clears of the cache, a key named by calls is constructed exactly
\* once by _get_adapter, and every call naming it is served by the one instance the
\* cache holds for it.
C1_AdapterBuiltOncePerKey ==
    \A k \in AllKeys :
        /\ ctorCount[k] <= 1
        /\ served[k] # {} =>
                /\ ctorCount[k] = 1
                /\ k \in DOMAIN adapters
                /\ served[k] = {adapters[k].id}

\* a call naming a key is served by the instance an earlier call constructed
C1_Witness ==
    /\ NamedCall /\ last.raised = "none" /\ ~last.created
    /\ ctorCount[AdapterKey(last.provider, last.model_name)] = 1
    /\ served[AdapterKey(last.provider, last.model_name)] = {last.adapter.id}
    /\ last.adapter.id # default_adapter.id

\* C2: generate and chat of either adapter class answer a failed backend with a
\* response of success = false, empty content and a non-empty error.
C2_FailureIsAResponse ==
    (direct.op \in {"generate", "chat"} /\ BackendFailed(direct.outcome)) =>
        /\ direct.resp.success = FALSE
        /\ direct.resp.content = ""
        /\ direct.resp.error # None
        /\ Len(direct.resp.error) > 0

\* an Ollama generate that met a 200 response whose body is no JSON
C2_Witness ==
    /\ direct.op = "generate" /\ direct.adapter.cls = "OllamaAdapter"
    /\ direct.outcome.kind = "response" /\ direct.outcome.status = 200
    /\ direct.outcome.body = "not_json"
    /\ direct.resp.success = FALSE /\ Len(direct.resp.error) > 0

\* C3: check_connection of either adapter class answers a failed backend with a
\* status of connected = false, a non-empty status_message and a non-empty error_details.
C3_ProbeFailureIsAStatus ==
    (direct.op = "check_connection" /\ BackendFailed(direct.outcome)) =>
        /\ direct.status.connected = FALSE
        /\ direct.status.status_message # None
        /\ Len(direct.status.status_message) > 0
        /\ direct.status.error_details # None
        /\ Len(direct.status.error_details) > 0

\* an OpenAI-compatible probe that met an HTTP 500
C3_Witness ==
    /\ direct.op = "check_connection" /\ direct.adapter.cls = "OpenAIModelAdapter"
    /\ direct.outcome.kind = "response" /\ direct.outcome.status = 500
    /\ direct.status.connected = FALSE

\* C4: with a default adapter, a call naming provider and model is served by the
\* instance cached under the named key, which is bound to the named model, and by
\* the default adapter only when the named key is the default's own.
C4_ExplicitBeatsDefault ==
    (NamedCall /\ last.raised = "none" /\ default_adapter # NoAdapter) =>
        /\ AdapterKey(last.provider, last.model_name) \in DOMAIN adapters
        /\ last.adapter = adapters[AdapterKey(last.provider, last.model_name)]
        /\ last.adapter.model_name = last.model_name
        /\ AdapterKey(last.provider, last.model_name) # default_key
                => last.adapter.id # default_adapter.id

\* a call naming another key than the default's, served by another instance
C4_Witness ==
    /\ NamedCall /\ last.raised = "none" /\ default_adapter # NoAdapter
    /\ AdapterKey(last.provider, last.model_name) # default_key
    /\ last.adapter.id # default_adapter.id
    /\ last.resp.model = last.model_name

\* C5: a call or probe naming neither provider nor model on a client without a
\* default adapter raises ConfigurationError, constructs no adapter and reaches none.
C5_NoAdapterNoCall ==
    [][(/\ phase = "ready" /\ default_adapter = NoAdapter
        /\ last'.op \in CallOps \cup {"check_connection"}
        /\ last'.provider = None /\ last'.model_name = None)
       => (/\ last'.raised = "ConfigurationError"
           /\ adapters' = adapters /\ nextId' = nextId /\ ctorCount' = ctorCount
           /\ last'.adapter = NoAdapter
           /\ last'.adapter_resp = NoResponse /\ last'.resp = NoResponse
           /\ last'.status = NoStatus)]_vars

\* an async call without names on a client without a default adapter
C5_Witness ==
    /\ last.op = "generate_async" /\ last.provider = None /\ last.model_name = None
    /\ default_adapter = NoAdapter /\ last.raised = "ConfigurationError"

\* C6: a call naming provider and model that fails while its adapter is obtained
\* raises ModelError and nothing else.
C6_SetupFailureIsModelError ==
    (NamedCall /\ last.raised # "none") => last.raised = "ModelError"

\* C7: the client returns the response its adapter returned, a failure included,
\* and raises nothing once it has an adapter.
C7_ResponseUnchanged ==
    (last.op \in CallOps /\ last.adapter # NoAdapter) =>
        /\ last.raised = "none"
        /\ last.resp = last.adapter_resp

\* a chat whose adapter reported a failure, which the client returned
C7_Witness ==
    /\ last.op = "chat" /\ last.adapter # NoAdapter /\ last.raised = "none"
    /\ last.resp.success = FALSE /\ last.resp.content = ""
    /\ last.resp.error # None /\ last.resp = last.adapter_resp

\* the listing of a provider's own adapter: one bound to the provider, [] when the
\* provider has no adapter class or its adapter finds no key
OwnCatalog(provider, keys, failing) ==
    LET c == IF provider = "ollama" THEN OllamaAdapterInit("temp", 1)
             ELSE IF provider \in {"openai", "deepseek"}
                  THEN OpenAIModelAdapterInit("temp", provider, KeyFound(provider, keys), 1)
             ELSE [raised |-> "AttributeError", adapter |-> NoAdapter]
    IN  IF c.raised # "none" THEN <<>>
        ELSE AdapterGetAvailableModels(c.adapter, ListingOutcome(provider, failing))

RECURSIVE OwnCatalogs(_, _, _)
OwnCatalogs(provs, keys, failing) ==
    IF provs = <<>> THEN <<>>
    ELSE OwnCatalog(Head(provs), keys, failing) \o OwnCatalogs(Tail(provs), keys, failing)

\* C8: get_available_models() without a provider raises nothing and returns, in
\* provider order, the catalogs of the providers with usable configuration, each
\* provider's own, nothing for a provider whose adapter cannot be had.
C8_CatalogsConcatenated ==
    (last.op = "get_available_models" /\ last.provider = None) =>
        /\ last.raised = "none"
        /\ last.models = OwnCatalogs(get_available_providers(last.keys), last.keys, last.failing)

\* C9: when the remote listing fails, get_available_models of either adapter class
\* returns the static catalog of the adapter's provider, marked unavailable, and an
\* empty list only when the provider has no static catalog.
C9_ListingFallsBack ==
    (/\ direct.op = "get_available_models"
     /\ \/ direct.outcome.kind # "response"
        \/ direct.outcome.status # 200) =>
        /\ Len(direct.models) = Len(StaticCatalog(direct.adapter.provider))
        /\ \A i \in 1..Len(direct.models) :
                direct.models[i].name = StaticCatalog(direct.adapter.provider)[i]

\* the caller's config as _merge_config reads it: the construction defaults for None
CallerConfig(cfg) == IF cfg = <<>> THEN DefaultConfig ELSE cfg[1]

\* C10: the merge gives, for a field of the catalog parameters, the caller's value
\* when it differs from the construction default and the catalog value otherwise,
\* and the caller's value for every other field; a catalog temperature of 0.3 with
\* a caller temperature of 0.7 merges to 0.3.
C10_MergePrefersExplicit ==
    direct.op = "_merge_config" =>
        /\ \A k \in Fields :
            direct.merged[k] =
                IF k \in DOMAIN direct.params
                THEN IF CallerConfig(direct.cfg)[k] # DefaultConfig[k]
                     THEN CallerConfig(direct.cfg)[k]
                     ELSE direct.params[k]
                ELSE CallerConfig(direct.cfg)[k]
        /\ ("temperature" \in DOMAIN direct.params /\ direct.params["temperature"] = 30
                /\ CallerConfig(direct.cfg).temperature = 70)
            => direct.merged.temperature = 30

\* a catalog temperature of 0.3 merged with a caller config whose temperature is 0.7
C10_Witness ==
    /\ direct.op = "_merge_config" /\ direct.cfg # <<>>
    /\ DOMAIN direct.params = {"temperature"} /\ direct.params["temperature"] = 30
    /\ direct.cfg[1].temperature = 70 /\ direct.cfg[1].max_tokens = 256
    /\ direct.merged.temperature = 30 /\ direct.merged.max_tokens = 256

\* C11: the temperature, top_p and max_tokens a generate or chat places in its
\* backend request are those of the caller's config merged with the catalog
\* parameters of the adapter's model.
C11_RequestCarriesMergedConfig ==
    (direct.op \in {"generate", "chat"} /\ direct.request.sent) =>
        LET merged == MergeConfig(ModelParams(direct.adapter.provider, direct.adapter.model_name),
                                  direct.cfg)
        IN  /\ direct.request.temperature = merged.temperature
            /\ direct.request.top_p = merged.top_p
            /\ direct.request.max_tokens = merged.max_tokens

\* the caller's config holds a numeric field outside the accepted range
OutOfRange(c) ==
    \/ c.temperature < 0 \/ c.temperature > 200
    \/ c.top_p < 0 \/ c.top_p > 100
    \/ c.max_tokens <= 0
    \/ c.top_k # <<>> /\ c.top_k[1] < 1

\* C12: a generate or chat whose config holds a numeric field outside the accepted
\* range issues no backend request.
C12_OutOfRangeRejected ==
    (direct.op \in {"generate", "chat"} /\ direct.cfg # <<>> /\ OutOfRange(direct.cfg[1]))
        => ~direct.request.sent

\* C13: to_dict() of a config has no entry whose value is None, and from_dict of it
\* equals the config in every field.
C13_RoundTrip ==
    direct.op = "to_dict" =>
        /\ \A k \in DOMAIN direct.dict : ~IsNoneVal(k, direct.dict[k])
        /\ \A k \in Fields : direct.back[k] = direct.cfg[1][k]
        /\ direct.back = direct.cfg[1]

\* a config with unset optional fields and fields away from their defaults, round-tripped
C13_Witness ==
    /\ direct.op = "to_dict"
    /\ direct.cfg[1].top_k = <<>> /\ direct.cfg[1].system_prompt # None
    /\ direct.cfg[1].temperature = 10
    /\ "top_k" \notin DOMAIN direct.dict /\ "system_prompt" \in DOMAIN direct.dict
    /\ direct.back = direct.cfg[1]

\* the most recent min(n, 50) of the results 1..n, in insertion order
MostRecent(n) == [i \in 1..(IF n < HistoryCap THEN n ELSE HistoryCap) |->
                        (IF n < HistoryCap THEN 0 ELSE n - HistoryCap) + i]

\* C14: after n add_optimization calls the optimization history holds the most
\* recent min(n, 50) results in insertion order, and likewise the test history
\* after n add_test calls; neither is ever longer than 50.
C14_HistoryKeepsLast50 ==
    /\ Len(session.optimization_history) <= HistoryCap
    /\ Len(session.test_history) <= HistoryCap
    /\ session.optimization_history = MostRecent(session.nOpt)
    /\ session.test_history = MostRecent(session.nTest)

\* the 51st addition has evicted the first-added result
C14_Witness ==
    /\ session.nOpt = 51
    /\ Len(session.optimization_history) = 50
    /\ session.optimization_history[1] = 2
    /\ session.optimization_history[50] = 51

\* C15: when two threads have called generate for the same uncached (provider,
\* model) and both have their adapter, one adapter was constructed for the key and
\* both use the instance the cache holds.
C15_RaceSafe ==
    \A t1, t2 \in Threads :
        (/\ t1 # t2
         /\ threads[t1].pc = "done" /\ threads[t2].pc = "done"
         /\ threads[t1].raised = "none" /\ threads[t2].raised = "none"
         /\ threads[t1].provider = threads[t2].provider
         /\ threads[t1].model_name = threads[t2].model_name) =>
            LET key == AdapterKey(threads[t1].provider, threads[t1].model_name)
            IN  /\ ctorCount[key] = 1
                /\ threads[t1].used.id = adapters[key].id
                /\ threads[t2].used.id = adapters[key].id

\* the synchronous method behind an asynchronous one
SyncOf(op) == IF op = "generate_async" THEN "generate" ELSE "chat"

\* C16: for either adapter class and every backend outcome, generate_async and
\* chat_async yield a response with the success flag, content and error that
\* generate and chat yield for the outcome, and yield a response, not an
\* exception, when the backend fails.
C16_AsyncAgreesWithSync ==
    direct.op \in {"generate_async", "chat_async"} =>
        LET sync == AdapterGenerate(direct.adapter, SyncOf(direct.op), direct.outcome)
        IN  /\ direct.resp # NoResponse
            /\ direct.resp.success = sync.success
            /\ direct.resp.content = sync.content
            /\ direct.resp.error = sync.error
            /\ BackendFailed(direct.outcome) =>
                    direct.resp.success = FALSE /\ direct.resp.error # None

\* a chat_async of the OpenAI-compatible adapter that met a timeout
C16_Witness ==
    /\ direct.op = "chat_async" /\ direct.adapter.cls = "OpenAIModelAdapter"
    /\ direct.outcome.kind = "timeout"
    /\ direct.resp.success = FALSE /\ direct.resp.content = ""
    /\ direct.resp.error = "Request timed out."

\* a task that another task's pending request keeps from going on: it cannot
\* start because the loop is held, or its submitted call finds no free worker
Blocked(t) ==
    \/ aio.tasks[t].pc = "new" /\ aio.loop # 0
    \/ aio.tasks[t].pc = "returned" /\ aio.loop # 0
    \/ aio.tasks[t].pc = "queued" /\ Cardinality(BusyWorkers) >= ExecutorWorkers

\* a finished task holds the response to its own request
OwnResponse(t) ==
    aio.tasks[t].pc = "done" =>
        aio.tasks[t].resp = AdapterGenerate(aio.tasks[t].adapter, SyncOf(aio.tasks[t].op),
                                            aio.tasks[t].outcome)

\* C17: asynchronous calls started through one client do not block each other (no
\* task is ever kept from starting or from issuing its request by another task's
\* pending request), and every started call eventually completes with the
\* response to its own request.
C17_AsyncCallsDoNotBlock ==
    /\ [](\A t \in Tasks : ~Blocked(t) /\ OwnResponse(t))
    /\ \A t \in Tasks : (aio.tasks[t].pc # "new") ~> (aio.tasks[t].pc = "done")

\* both requests are in flight at once
C17_Witness ==
    /\ aio.tasks[1].pc = "waiting" /\ aio.tasks[2].pc = "waiting"
    /\ aio.tasks[1].adapter = default_adapter /\ aio.loop = 0

\* C18: for a valid request whose model call returns success = true, optimize_prompt
\* returns a result whose optimized_prompt is the prompt extracted from the content,
\* whose response is the model's response and whose suggestions are non-empty and
\* contain the boilerplate suggestions of the request's optimization type.
C18_SuccessGivesResult ==
    (svc.op = "optimize_prompt" /\ svc.generate_calls = 1 /\ svc.model_response.success) =>
        /\ svc.raised = "none"
        /\ svc.result.optimized_prompt
                = ExtractOptimizedPrompt(ContentTokens(svc.model_response.content))
        /\ svc.result.response = svc.model_response
        /\ svc.result.suggestions # <<>>
        /\ \A i \in 1..Len(TypeSuggestions(svc.request.optimization_type)) :
                Occurs(TypeSuggestions(svc.request.optimization_type)[i], svc.result.suggestions)

\* the request's prompt is empty, whitespace only or over the length limit
BadPrompt(request) ==
    request.original_prompt.blank \/ request.original_prompt.len > MaxPromptLength

\* C19: an optimize_prompt whose request has an empty or whitespace-only prompt, a
\* prompt of more than 10000 characters or an empty model name makes no
\* client.generate call: the client is left as it was.
C19_ValidationBeforeCall ==
    [][(svc'.op = "optimize_prompt"
            /\ (BadPrompt(svc'.request) \/ ~Truthy(svc'.request.model_name)))
       => (/\ svc'.generate_calls = 0
           /\ svc'.model_response = NoResponse
           /\ last' = last /\ adapters' = adapters /\ nextId' = nextId)]_vars

\* a prompt one character over the limit was refused before any call
C19_Witness ==
    /\ svc.op = "optimize_prompt" /\ svc.request.original_prompt.len = MaxPromptLength + 1
    /\ svc.request.model_name = "deepseek-chat" /\ svc.template_ok
    /\ svc.validated = "ValidationError"
    /\ svc.generate_calls = 0 /\ last.op = "__init__" /\ nextId = 0

\* C20: an optimize_prompt whose request has an empty or over-long prompt raises a
\* validation error to its caller.
C20_ValidationErrorRaised ==
    (svc.op = "optimize_prompt" /\ BadPrompt(svc.request)) => svc.raised = "ValidationError"

\* the category of the failure a generate or chat met: a timeout, a connection
\* failure, a non-success HTTP status, or an exception raised on the client's side
\* (a 200 response the adapter cannot read included)
FailureCategory(o) ==
    CASE o.kind \in {"timeout", "connect_timeout"} -> "timeout"
      [] o.kind = "refused" -> "connection"
      [] o.kind = "response" /\ o.status # 200 -> "http_status"
      [] OTHER -> "local"

\* C21: for either adapter class, the error string of a failed generate or chat
\* tells the category of the failure: no failure of another category gives the
\* same error string.
C21_CategoryInErrorString ==
    (direct.op \in {"generate", "chat"} /\ ~direct.resp.success) =>
        \A o \in Outcomes :
            (/\ ~AdapterGenerate(direct.adapter, direct.op, o).success
             /\ FailureCategory(o) # FailureCategory(direct.outcome))
                => AdapterGenerate(direct.adapter, direct.op, o).error # direct.resp.error

\* C22: for either adapter class, the backend request of a generate or chat is
\* issued under the timeout of the API configuration of the adapter's provider,
\* and a request that runs into its timeout is answered with a failure response.
C22_RequestUnderConfiguredTimeout ==
    (direct.op \in {"generate", "chat"} /\ direct.request.sent) =>
        /\ direct.request.timeout = ApiTimeout(direct.adapter.provider)
        /\ direct.outcome.kind = "timeout" =>
                ~direct.resp.success /\ direct.resp.error # None

\* the last operation is a call or probe that named neither provider nor model
UnnamedCall ==
    /\ last.op \in CallOps \cup {"check_connection"}
    /\ last.provider = None /\ last.model_name = None

\* C23: a client constructed with a default provider and a default model has
\* built that adapter when __init__ returns, and it is then the only cached key;
\* every later call naming neither provider nor model is served by that instance,
\* and constructs no adapter.
C23_DefaultBuiltEagerly ==
    /\ [](((last.op = "__init__" /\ phase = "ready"
                /\ Truthy(last.provider) /\ Truthy(last.model_name)) =>
                    /\ DOMAIN adapters = {AdapterKey(last.provider, last.model_name)}
                    /\ default_key = AdapterKey(last.provider, last.model_name)
                    /\ default_adapter = adapters[default_key]
                    /\ default_adapter.model_name = last.model_name
                    /\ nextId = 1 /\ default_adapter.id = 1)
          /\ ((UnnamedCall /\ default_key # None) =>
                    /\ last.raised = "none"
                    /\ last.adapter = default_adapter /\ last.adapter.id = 1
                    /\ ~last.created))
    /\ [][(default_key # None /\ last'.op \in CallOps \cup {"check_connection"}
            /\ last'.provider = None /\ last'.model_name = None)
           => (nextId' = nextId /\ ctorCount' = ctorCount /\ adapters' = adapters
               /\ default_adapter' = default_adapter)]_vars

\* a generate naming nothing, served by the default adapter after a second adapter
\* was constructed and the cache was cleared
C23_Witness ==
    /\ UnnamedCall /\ last.op = "generate" /\ default_key # None
    /\ last.adapter = default_adapter /\ last.adapter.id = 1
    /\ nextId = 2 /\ adapters = NoCache
    /\ last.resp.success

\* C24: the adapter cached under key "P:M" is bound to provider P and model M, and
\* the response of a call naming (P, M) echoes provider P and model M.
C24_CachedAdapterBoundToKey ==
    /\ \A k \in DOMAIN adapters : AdapterKey(adapters[k].provider, adapters[k].model_name) = k
    /\ (NamedCall /\ last.raised = "none") =>
            /\ last.resp.provider = last.provider
            /\ last.resp.model = last.model_name

\* C25: check_connection, with or without provider and model, leaves the adapter
\* cache and the default adapter as they were before the call.
C25_ProbeLeavesClientUnchanged ==
    [][(phase = "ready" /\ last'.op = "check_connection")
       => (adapters' = adapters /\ default_adapter' = default_adapter)]_vars

\* C26: when the model call of optimize_prompt returns a response of success =
\* false, optimize_prompt raises nothing and returns a result whose response has
\* success = false and a non-empty error, whose optimized_prompt is empty and whose
\* suggestions are empty.
C26_ModelFailureGivesFailureResult ==
    (/\ svc.op = "optimize_prompt" /\ svc.generate_calls = 1
     /\ svc.model_response # NoResponse /\ ~svc.model_response.success) =>
        /\ svc.raised = "none"
        /\ svc.result.response.success = FALSE
        /\ svc.result.response.error # None /\ svc.result.response.error # ""
        /\ svc.result.optimized_prompt = <<>>
        /\ svc.result.suggestions = <<>>

\* the last operation is a call or probe that named a provider of the enum and a model
NamedOperation ==
    /\ last.op \in CallOps \cup {"check_connection"}
    /\ last.provider \in ProviderValues /\ Truthy(last.model_name)

\* C27: a call whose adapter construction fails raises ModelError and leaves the
\* adapter cache as it was, without an entry for the key; a later call naming the
\* same key constructs again, and is served by the new instance when that succeeds.
C27_FailedConstructionNotCached ==
    /\ []((NamedOperation /\ last.raised # "none") =>
                /\ last.raised = "ModelError"
                /\ last.adapter = NoAdapter
                /\ AdapterKey(last.provider, last.model_name) \notin DOMAIN adapters)
    /\ []((NamedOperation /\ last.retry /\ last.raised = "none") =>
                /\ last.created
                /\ last.adapter # NoAdapter
                /\ adapters[AdapterKey(last.provider, last.model_name)] = last.adapter)
    /\ [][(last'.op \in CallOps \cup {"check_connection"} /\ last'.raised # "none")
           => (adapters' = adapters /\ nextId' = nextId)]_vars

\* a call for a key whose construction had just failed constructs the adapter,
\* beside another key that stayed cached throughout
C27_Witness ==
    /\ NamedOperation /\ last.retry /\ last.raised = "none" /\ last.created
    /\ last.provider = "deepseek"
    /\ Cardinality(DOMAIN adapters) = 2

\* C28: a default adapter is the instance the cache holds under its key, and a
\* call naming the default's provider and model is served by the instance that
\* serves the calls naming nothing, also after clear_adapter_cache.
C28_OneInstancePerKey ==
    default_adapter # NoAdapter =>
        /\ default_key \in DOMAIN adapters => adapters[default_key].id = default_adapter.id
        /\ (NamedCall /\ last.raised = "none"
                /\ AdapterKey(last.provider, last.model_name) = default_key)
            => last.adapter.id = default_adapter.id

\* C29: a call naming a provider and no model is served by the default adapter
\* only when the default adapter was built for that provider, and a call naming a
\* model and no provider only when it was built for that model.
C29_PartialNamesNotMisrouted ==
    (last.op \in CallOps /\ last.raised = "none" /\ last.adapter = default_adapter
        /\ default_key # None) =>
        /\ (Truthy(last.provider) /\ ~Truthy(last.model_name)) =>
                \E m \in ModelArgs \ {None} : default_key = AdapterKey(last.provider, m)
        /\ (Truthy(last.model_name) /\ ~Truthy(last.provider)) =>
                \E q \in ProviderValues : default_key = AdapterKey(q, last.model_name)

\* the tasks that named the key and have their adapter
TasksNaming(k) ==
    {t \in Tasks : /\ aio.tasks[t].pc # "new" /\ aio.tasks[t].raised = "none"
                   /\ Truthy(aio.tasks[t].provider) /\ Truthy(aio.tasks[t].model_name)
                   /\ AdapterKey(aio.tasks[t].provider, aio.tasks[t].model_name) = k}

\* C30: when coroutines of one event loop call generate_async or chat_async naming
\* the same uncached (provider, model), whatever their interleaving, exactly one
\* adapter is constructed for the key and every one of them uses that instance.
C30_CoroutinesShareOneAdapter ==
    \A k \in AllKeys :
        /\ ctorCount[k] <= 1
        /\ TasksNaming(k) # {} =>
                /\ ctorCount[k] = 1
                /\ k \in DOMAIN adapters
                /\ \A t \in TasksNaming(k) : aio.tasks[t].adapter.id = adapters[k].id

\* both coroutines named the same key and the second started while the request of
\* the first was still pending
C30_Witness ==
    /\ aio.tasks[1].pc = "waiting" /\ aio.tasks[2].pc = "queued"
    /\ aio.tasks[1].provider = "deepseek" /\ aio.tasks[2].provider = "deepseek"
    /\ aio.tasks[1].op = "generate_async" /\ aio.tasks[2].op = "chat_async"
    /\ aio.tasks[1].adapter = aio.tasks[2].adapter /\ aio.tasks[1].adapter # NoAdapter
    /\ nextId = 1

====
